---- MODULE Spec2Model ----
(***************************************************************************)
(* Model of gdc_demo.ipynb: the gdc() preprocessing function (PPR          *)
(* diffusion, threshold sparsification, column normalisation) and the      *)
(* run() training loop (best-epoch tracking and early stopping).           *)
(*                                                                         *)
(* Numbers are exact rationals <<num, den>> with den >= 0.  A denominator  *)
(* of 0 encodes the non-finite floating point values numpy produces:       *)
(* <<1,0>> is +inf, <<-1,0>> is -inf and <<0,0>> is NaN.  Rounding is not  *)
(* modelled; inputs are restricted to matrices whose degrees are perfect   *)
(* squares (or are <= 0), so that 1/sqrt(d) is itself rational.            *)
(***************************************************************************)
EXTENDS Integers, Sequences, FiniteSets, TLC

(***************************************************************************)
(* Extended rational arithmetic (numpy float semantics without rounding).  *)
(***************************************************************************)
Abs(x) == IF x < 0 THEN -x ELSE x

Sign(x) == IF x > 0 THEN 1 ELSE IF x < 0 THEN -1 ELSE 0

RECURSIVE GCD(_, _)
GCD(a, b) == IF b = 0 THEN a ELSE GCD(b, a % b)

Norm(n, d) ==
    IF d = 0 THEN <<Sign(n), 0>>
    ELSE LET s == IF d < 0 THEN -1 ELSE 1
             g == GCD(Abs(n), Abs(d))
         IN  <<(s * n) \div g, (s * d) \div g>>

Zero == <<0, 1>>
One == <<1, 1>>
NaN == <<0, 0>>
PosInf == <<1, 0>>

IntRat(k) == <<k, 1>>

IsNaN(a) == a[1] = 0 /\ a[2] = 0
IsFinite(a) == a[2] # 0

Add(a, b) ==
    IF a[2] = 0 /\ b[2] = 0
    THEN (IF a[1] = b[1] THEN a ELSE NaN)
    ELSE Norm(a[1] * b[2] + b[1] * a[2], a[2] * b[2])

Neg(a) == <<-a[1], a[2]>>

Sub(a, b) == Add(a, Neg(b))

Mul(a, b) == Norm(a[1] * b[1], a[2] * b[2])

Div(a, b) ==
    IF b[1] = 0 /\ b[2] # 0
    THEN <<Sign(a[1]), 0>>
    ELSE Mul(a, Norm(b[2] * Sign(b[1]), Abs(b[1])))

\* a >= b as numpy compares floats: FALSE whenever either side is NaN
Geq(a, b) == ~IsNaN(a) /\ ~IsNaN(b) /\ a[1] * b[2] >= b[1] * a[2]

\* a < b as Python compares floats
Lt(a, b) == ~IsNaN(a) /\ ~IsNaN(b) /\ a[1] * b[2] < b[1] * a[2]

IsSquare(n) == \E r \in 0..n : r * r = n

ISqrt(n) == CHOOSE r \in 0..n : r * r = n

\* np.sqrt on a rational with perfect-square numerator and denominator;
\* sqrt of a negative number is NaN
Sqrt(a) ==
    IF a[2] = 0 THEN (IF a[1] = 1 THEN PosInf ELSE NaN)
    ELSE IF a[1] < 0 THEN NaN
    ELSE <<ISqrt(a[1]), ISqrt(a[2])>>

(***************************************************************************)
(* Matrices are functions Nodes -> Nodes -> rational, M[i][j] is row i,    *)
(* column j.                                                               *)
(***************************************************************************)
N == 2

Nodes == 0..(N - 1)

RECURSIVE SumOver(_, _)
SumOver(f, S) ==
    IF S = {} THEN Zero
    ELSE LET x == CHOOSE y \in S : \A z \in S : y <= z
         IN  Add(f[x], SumOver(f, S \ {x}))

Eye == [i \in Nodes |-> [j \in Nodes |-> IF i = j THEN One ELSE Zero]]

ZeroMat == [i \in Nodes |-> [j \in Nodes |-> Zero]]

ZeroVec == [i \in Nodes |-> Zero]

NaNMat == [i \in Nodes |-> [j \in Nodes |-> NaN]]

MatAdd(X, Y) == [i \in Nodes |-> [j \in Nodes |-> Add(X[i][j], Y[i][j])]]

MatSub(X, Y) == [i \in Nodes |-> [j \in Nodes |-> Sub(X[i][j], Y[i][j])]]

Scale(c, X) == [i \in Nodes |-> [j \in Nodes |-> Mul(c, X[i][j])]]

\* M.sum(0).A1 : the sum over axis 0, one value per column
ColSums(X) == [j \in Nodes |-> SumOver([i \in Nodes |-> X[i][j]], Nodes)]

\* M.sum(1).A1 : one value per row (used only to state claims)
RowSums(X) == [i \in Nodes |-> SumOver([j \in Nodes |-> X[i][j]], Nodes)]

Transpose(X) == [i \in Nodes |-> [j \in Nodes |-> X[j][i]]]

AllFinite(X) == \A i \in Nodes : \A j \in Nodes : IsFinite(X[i][j])

\* Determinant by Laplace expansion along the first listed row; rows and
\* cols are the sequences of row and column indices of the sub-matrix.
DropAt(s, k) == [i \in 1..(Len(s) - 1) |-> IF i < k THEN s[i] ELSE s[i + 1]]

RECURSIVE Det(_, _, _)
Det(X, rows, cols) ==
    IF Len(rows) = 0 THEN One
    ELSE LET term(k) == Mul(IntRat(IF k % 2 = 1 THEN 1 ELSE -1),
                            Mul(X[rows[1]][cols[k]],
                                Det(X, Tail(rows), DropAt(cols, k))))
             terms == [k \in 1..Len(cols) |-> term(k)]
         IN  SumOver(terms, 1..Len(cols))

NodeSeq == [k \in 1..N |-> k - 1]

\* exact inverse: adjugate over determinant
Inverse(X) ==
    LET d == Det(X, NodeSeq, NodeSeq)
        cof(i, j) == Mul(IntRat(IF (i + j) % 2 = 0 THEN 1 ELSE -1),
                         Det(X, DropAt(NodeSeq, i + 1), DropAt(NodeSeq, j + 1)))
    IN  [i \in Nodes |-> [j \in Nodes |-> Div(cof(j, i), d)]]

(***************************************************************************)
(* gdc(A, alpha, eps)                                                      *)
(***************************************************************************)
VARIABLES A, alpha, eps, pc, exc,
          A_loop, D_loop_vec, D_loop_vec_invsqrt, T_sym, S, S_tilde,
          D_tilde_vec, T_S

gdcVars == <<A, alpha, eps, pc, exc, A_loop, D_loop_vec, D_loop_vec_invsqrt,
             T_sym, S, S_tilde, D_tilde_vec, T_S>>

\* the state of run(), declared here so that each action can frame it
VARIABLES max_epochs, patience, test, rpc, seeds_done, epoch,
          patience_counter, tmp_dict, best_dict, broke, val_hist, test_hist

runVars == <<max_epochs, patience, test, rpc, seeds_done, epoch,
             patience_counter, tmp_dict, best_dict, broke, val_hist, test_hist>>

vars == <<gdcVars, runVars>>

\* input domains
Entries == {-1, 0, 3, 5}

Alphas == {<<0, 1>>, <<1, 2>>, <<1, 1>>, <<2, 1>>}

Epss == {<<-1, 2>>, <<0, 1>>, <<1, 2>>, <<7, 10>>, <<9, 10>>, <<1, 1>>}

\* A_loop = sp.eye(N) + A
SelfLoopMatrix(X) == MatAdd(Eye, X)

\* D_loop_vec = A_loop.sum(0).A1
DegreeVector(X) == ColSums(X)

\* the degrees this model can take the square root of exactly
Representable(X) ==
    \A j \in Nodes :
        LET d == DegreeVector(SelfLoopMatrix(X))[j][1]
        IN  d <= 0 \/ IsSquare(d)

Inputs == {X \in [Nodes -> [Nodes -> {IntRat(e) : e \in Entries}]] : Representable(X)}

\* D_loop_vec_invsqrt = 1 / np.sqrt(D_loop_vec)
InvSqrtVector(d) == [i \in Nodes |-> Div(One, Sqrt(d[i]))]

\* mutant: the right-hand factor D_loop_invsqrt is forgotten
SymTransition_LeftOnly(X, v) ==
    [i \in Nodes |-> [j \in Nodes |->
        IF X[i][j] = Zero THEN Zero ELSE Mul(v[i], X[i][j])]]

\* T_sym = D_loop_invsqrt @ A_loop @ D_loop_invsqrt, with D_loop_invsqrt the
\* diagonal matrix of v.  The sparse product only visits stored (nonzero)
\* entries of A_loop, so an entry that is 0 in A_loop stays 0 in T_sym.
SymTransition(X, v) ==
    [i \in Nodes |-> [j \in Nodes |->
        IF X[i][j] = Zero THEN Zero ELSE Mul(Mul(v[i], X[i][j]), v[j])]]

\* sp.eye(N) - (1 - alpha) * T_sym
PPRSystem(a, T) == MatSub(Eye, Scale(Sub(One, a), T))

\* mutant: the PPR variant with a trailing factor T
PPRDiffusion_TimesT(a, T) ==
    LET P == Scale(a, Inverse(PPRSystem(a, T)))
    IN  [i \in Nodes |-> [j \in Nodes |->
            SumOver([k \in Nodes |-> Mul(P[i][k], T[k][j])], Nodes)]]

\* S = alpha * sp.linalg.inv(...)
PPRDiffusion(a, T) == Scale(a, Inverse(PPRSystem(a, T)))

\* mutant: a strict threshold, S > eps
Threshold_Strict(X, e) ==
    [i \in Nodes |-> [j \in Nodes |->
        IF Geq(X[i][j], e) /\ X[i][j] # e THEN X[i][j] ELSE Zero]]

\* S_tilde = S.multiply(S >= eps)
Threshold(X, e) ==
    [i \in Nodes |-> [j \in Nodes |-> IF Geq(X[i][j], e) THEN X[i][j] ELSE Zero]]

\* T_S = S_tilde / D_tilde_vec : column j is divided by D_tilde_vec[j]
ColumnNormalize(X, d) == [i \in Nodes |-> [j \in Nodes |-> Div(X[i][j], d[j])]]

gdcInit ==
    /\ A \in Inputs
    /\ alpha \in Alphas
    /\ eps \in Epss
    /\ pc = "self_loops"
    /\ exc = "none"
    /\ A_loop = ZeroMat
    /\ D_loop_vec = ZeroVec
    /\ D_loop_vec_invsqrt = ZeroVec
    /\ T_sym = ZeroMat
    /\ S = ZeroMat
    /\ S_tilde = ZeroMat
    /\ D_tilde_vec = ZeroVec
    /\ T_S = ZeroMat

\* lines 53-54
SelfLoops ==
    /\ pc = "self_loops"
    /\ A_loop' = SelfLoopMatrix(A)
    /\ pc' = "transition"
    /\ UNCHANGED <<A, alpha, eps, exc, D_loop_vec, D_loop_vec_invsqrt, T_sym, S,
                   S_tilde, D_tilde_vec, T_S>>
    /\ UNCHANGED runVars

\* lines 56-60: no check of the degrees is made
Transition ==
    /\ pc = "transition"
    /\ D_loop_vec' = DegreeVector(A_loop)
    /\ D_loop_vec_invsqrt' = InvSqrtVector(D_loop_vec')
    /\ T_sym' = SymTransition(A_loop, D_loop_vec_invsqrt')
    /\ pc' = "ppr"
    /\ UNCHANGED <<A, alpha, eps, exc, A_loop, S, S_tilde, D_tilde_vec, T_S>>
    /\ UNCHANGED runVars

\* lines 62-63.  The sparse LU solver raises RuntimeError on an exactly
\* singular system; what it does with inf/NaN entries is not defined by its
\* interface, so both outcomes (an error, a NaN result) are allowed.
Diffuse ==
    /\ pc = "ppr"
    /\ LET M == PPRSystem(alpha, T_sym)
       IN  \/ /\ AllFinite(M)
              /\ Det(M, NodeSeq, NodeSeq) # Zero
              /\ S' = PPRDiffusion(alpha, T_sym)
              /\ pc' = "sparsify"
              /\ exc' = exc
           \/ /\ AllFinite(M)
              /\ Det(M, NodeSeq, NodeSeq) = Zero
              /\ S' = S
              /\ pc' = "raised"
              /\ exc' = "RuntimeError"
           \/ /\ ~AllFinite(M)
              /\ S' = NaNMat
              /\ pc' = "sparsify"
              /\ exc' = exc
           \/ /\ ~AllFinite(M)
              /\ S' = S
              /\ pc' = "raised"
              /\ exc' = "RuntimeError"
    /\ UNCHANGED <<A, alpha, eps, A_loop, D_loop_vec, D_loop_vec_invsqrt, T_sym,
                   S_tilde, D_tilde_vec, T_S>>
    /\ UNCHANGED runVars

\* lines 65-66.  scipy's sparse comparison with the scalar 0 is refused by
\* some versions (NotImplementedError for ">= 0"), so eps = 0 may also raise.
Sparsify ==
    /\ pc = "sparsify"
    /\ \/ /\ S_tilde' = Threshold(S, eps)
          /\ pc' = "normalize"
          /\ exc' = exc
       \/ /\ eps = Zero
          /\ S_tilde' = S_tilde
          /\ pc' = "raised"
          /\ exc' = "NotImplementedError"
    /\ UNCHANGED <<A, alpha, eps, A_loop, D_loop_vec, D_loop_vec_invsqrt, T_sym,
                   S, D_tilde_vec, T_S>>
    /\ UNCHANGED runVars

\* lines 68-72: no check of the column sums is made before dividing
Normalize ==
    /\ pc = "normalize"
    /\ D_tilde_vec' = ColSums(S_tilde)
    /\ T_S' = ColumnNormalize(S_tilde, D_tilde_vec')
    /\ pc' = "returned"
    /\ UNCHANGED <<A, alpha, eps, exc, A_loop, D_loop_vec, D_loop_vec_invsqrt,
                   T_sym, S, S_tilde>>
    /\ UNCHANGED runVars

gdcNext == SelfLoops \/ Transition \/ Diffuse \/ Sparsify \/ Normalize

(***************************************************************************)
(* run(dataset, model, seeds, test, max_epochs, patience, ...)             *)
(*                                                                         *)
(* epoch counts the iterations of the epoch loop completed for the current *)
(* seed (the loop variable of the iteration being run is epoch + 1).       *)
(* val_hist and test_hist record what evaluate() returned in each epoch of *)
(* the current seed; the code does not keep them, the claims are stated    *)
(* over them.                                                              *)
(***************************************************************************)
MaxEpochs == 4

MaxPatience == 2

\* the seeds argument: one train/validation/test split per entry
seeds == <<1, 2>>

NumSeeds == Len(seeds)

\* the accuracies evaluate() can return: correct / mask.sum()
ValAccs == {<<0, 1>>, <<1, 2>>, <<1, 1>>}

TestAccs == {<<0, 1>>, <<1, 1>>}

\* evaluate(model, data, test): keys 'val_acc' and, when test, 'test_acc'
EvalDicts(t) ==
    IF t THEN {[k \in {"val_acc", "test_acc"} |->
                   IF k = "val_acc" THEN v ELSE w] : v \in ValAccs, w \in TestAccs}
    ELSE {[k \in {"val_acc"} |-> v] : v \in ValAccs}

\* tmp_dict = {'val_acc': 0}
FreshTmpDict == [k \in {"val_acc"} |-> Zero]

\* if patience_counter == patience: break
StopNow(counter, p) == counter = p

\* mutant: <= in place of <, a tie no longer counts as an improvement
NoImprovement_Leq(ed, tmp) == Geq(tmp["val_acc"], ed["val_acc"])

\* if eval_dict['val_acc'] < tmp_dict['val_acc']
NoImprovement(ed, tmp) == Lt(ed["val_acc"], tmp["val_acc"])

\* mutant: the counter is not reset by an improving epoch
NextPatienceCounter_NoReset(counter, worse) ==
    IF worse THEN counter + 1 ELSE counter

\* patience_counter += 1   /   patience_counter = 0
NextPatienceCounter(counter, worse) == IF worse THEN counter + 1 ELSE 0

\* tmp_dict['epoch'] = epoch; for k, v in eval_dict.items(): tmp_dict[k] = v
UpdateBest(tmp, e, ed) ==
    [k \in DOMAIN tmp \cup {"epoch"} \cup DOMAIN ed |->
        IF k \in DOMAIN ed THEN ed[k]
        ELSE IF k = "epoch" THEN e
        ELSE tmp[k]]

\* for k, v in tmp_dict.items(): best_dict[k].append(v)   (a defaultdict(list))
AppendAll(best, tmp) ==
    [k \in DOMAIN best \cup DOMAIN tmp |->
        IF k \in DOMAIN tmp
        THEN Append(IF k \in DOMAIN best THEN best[k] ELSE <<>>, tmp[k])
        ELSE best[k]]

runInit ==
    /\ max_epochs \in 0..MaxEpochs
    /\ patience \in 0..MaxPatience
    /\ test \in BOOLEAN
    /\ rpc = "seed_loop"
    /\ seeds_done = 0
    /\ epoch = 0
    /\ patience_counter = 0
    /\ tmp_dict = FreshTmpDict
    /\ best_dict = [k \in {} |-> <<>>]
    /\ broke = FALSE
    /\ val_hist = <<>>
    /\ test_hist = <<>>

\* lines 244-260: next seed, fresh split, model, optimizer and counters
StartSeed ==
    /\ rpc = "seed_loop"
    /\ seeds_done < NumSeeds
    /\ patience_counter' = 0
    /\ tmp_dict' = FreshTmpDict
    /\ epoch' = 0
    /\ broke' = FALSE
    /\ val_hist' = <<>>
    /\ test_hist' = <<>>
    /\ rpc' = "epoch_loop"
    /\ UNCHANGED <<max_epochs, patience, test, seeds_done, best_dict>>
    /\ UNCHANGED gdcVars

\* lines 262-275: one iteration that trains, evaluates and updates
EpochStep ==
    /\ rpc = "epoch_loop"
    /\ epoch < max_epochs
    /\ ~StopNow(patience_counter, patience)
    /\ \E ed \in EvalDicts(test) :
          LET worse == NoImprovement(ed, tmp_dict)
          IN  /\ patience_counter' = NextPatienceCounter(patience_counter, worse)
              /\ tmp_dict' = IF worse THEN tmp_dict
                             ELSE UpdateBest(tmp_dict, epoch + 1, ed)
              /\ val_hist' = Append(val_hist, ed["val_acc"])
              /\ test_hist' = IF test THEN Append(test_hist, ed["test_acc"])
                              ELSE test_hist
    /\ epoch' = epoch + 1
    /\ UNCHANGED <<max_epochs, patience, test, rpc, seeds_done, best_dict, broke>>
    /\ UNCHANGED gdcVars

\* lines 263-264: the break at the top of an iteration
BreakEarly ==
    /\ rpc = "epoch_loop"
    /\ epoch < max_epochs
    /\ StopNow(patience_counter, patience)
    /\ broke' = TRUE
    /\ rpc' = "append"
    /\ UNCHANGED <<max_epochs, patience, test, seeds_done, epoch, patience_counter,
                   tmp_dict, best_dict, val_hist, test_hist>>
    /\ UNCHANGED gdcVars

\* line 262: range(1, max_epochs + 1) is exhausted
LoopExhausted ==
    /\ rpc = "epoch_loop"
    /\ epoch = max_epochs
    /\ rpc' = "append"
    /\ UNCHANGED <<max_epochs, patience, test, seeds_done, epoch, patience_counter,
                   tmp_dict, best_dict, broke, val_hist, test_hist>>
    /\ UNCHANGED gdcVars

\* lines 277-278
AppendBest ==
    /\ rpc = "append"
    /\ best_dict' = AppendAll(best_dict, tmp_dict)
    /\ seeds_done' = seeds_done + 1
    /\ rpc' = "seed_loop"
    /\ UNCHANGED <<max_epochs, patience, test, epoch, patience_counter, tmp_dict,
                   broke, val_hist, test_hist>>
    /\ UNCHANGED gdcVars

\* lines 280-281: best_dict['duration'] = elapsed time; return
Finish ==
    /\ rpc = "seed_loop"
    /\ seeds_done = NumSeeds
    /\ best_dict' = [k \in DOMAIN best_dict \cup {"duration"} |->
                        IF k = "duration" THEN "elapsed" ELSE best_dict[k]]
    /\ rpc' = "done"
    /\ UNCHANGED <<max_epochs, patience, test, seeds_done, epoch, patience_counter,
                   tmp_dict, broke, val_hist, test_hist>>
    /\ UNCHANGED gdcVars

runNext == StartSeed \/ EpochStep \/ BreakEarly \/ LoopExhausted \/ AppendBest \/ Finish

\* the half of the state that a specification does not exercise
gdcIdle ==
    /\ A = ZeroMat
    /\ alpha = One
    /\ eps = Zero
    /\ pc = "idle"
    /\ exc = "none"
    /\ A_loop = ZeroMat
    /\ D_loop_vec = ZeroVec
    /\ D_loop_vec_invsqrt = ZeroVec
    /\ T_sym = ZeroMat
    /\ S = ZeroMat
    /\ S_tilde = ZeroMat
    /\ D_tilde_vec = ZeroVec
    /\ T_S = ZeroMat

runIdle ==
    /\ max_epochs = 0
    /\ patience = 0
    /\ test = FALSE
    /\ rpc = "idle"
    /\ seeds_done = 0
    /\ epoch = 0
    /\ patience_counter = 0
    /\ tmp_dict = FreshTmpDict
    /\ best_dict = [k \in {} |-> <<>>]
    /\ broke = FALSE
    /\ val_hist = <<>>
    /\ test_hist = <<>>

\* one call of gdc
Init == gdcInit /\ runIdle

Next == gdcNext

Spec == Init /\ [][Next]_vars

\* one call of run
InitRun == gdcIdle /\ runInit

NextRun == runNext

SpecRun == InitRun /\ [][NextRun]_vars

(***************************************************************************)
(* Properties of gdc, checked under Spec.                                  *)
(***************************************************************************)
\* the contract's preconditions
ValidA == \A i \in Nodes : \A j \in Nodes : A[i][j][1] >= 0

ValidAlpha == Lt(Zero, alpha) /\ Geq(One, alpha)

ValidEps == Geq(eps, Zero) /\ Lt(eps, One)

ValidCall == ValidA /\ ValidAlpha /\ ValidEps

Symmetric(X) == X = Transpose(X)

OffDiagonalZero(X) == \A i \in Nodes : \A j \in Nodes : i # j => X[i][j] = Zero

PastTransition == pc \in {"ppr", "sparsify", "normalize", "returned", "raised"}

PastDiffuse ==
    \/ pc \in {"sparsify", "normalize", "returned"}
    \/ pc = "raised" /\ exc = "NotImplementedError"

PastSparsify == pc \in {"normalize", "returned"}

\* C1: for a valid call, every column of the returned matrix sums to 1, also
\* the columns that the threshold emptied.
ColumnStochastic ==
    (pc = "returned" /\ ValidCall) =>
        \A j \in Nodes : ColSums(T_S)[j] = One

\* C2: for a valid call, a column whose sparsified sum is exactly 0 comes back
\* as a pure self-loop: 1 on the diagonal, 0 elsewhere.
ZeroColumnSelfLoop ==
    (pc = "returned" /\ ValidCall) =>
        \A j \in Nodes :
            D_tilde_vec[j] = Zero =>
                \A i \in Nodes : T_S[i][j] = (IF i = j THEN One ELSE Zero)

\* C3: the threshold is inclusive and exact: an entry of S that is >= eps is
\* kept unchanged (also when it equals eps), any other entry becomes 0; so a
\* kept entry is >= eps and a zeroed (finite, nonzero) entry was < eps.
ThresholdExact ==
    PastSparsify =>
        \A i \in Nodes : \A j \in Nodes :
            /\ Geq(S[i][j], eps) => S_tilde[i][j] = S[i][j]
            /\ ~Geq(S[i][j], eps) => S_tilde[i][j] = Zero
            /\ S_tilde[i][j] # Zero => Geq(S_tilde[i][j], eps)
            /\ (S_tilde[i][j] = Zero /\ S[i][j] # Zero /\ IsFinite(S[i][j]))
                   => Lt(S[i][j], eps)

\* C3 witness: an entry exactly equal to a nonzero eps was kept while another
\* nonzero entry was zeroed.
ThresholdTieRetained ==
    /\ PastSparsify
    /\ eps # Zero
    /\ \E i \in Nodes : \E j \in Nodes : S[i][j] = eps /\ S_tilde[i][j] = eps
    /\ \E i \in Nodes : \E j \in Nodes : S[i][j] # Zero /\ S_tilde[i][j] = Zero

\* C4 as stated: with alpha = 1 the PPR matrix S equals T.
PPRAlphaOneEqualsT ==
    (pc = "sparsify" /\ alpha = One /\ ValidCall) => S = T_sym

\* C4 amended: with alpha = 1 the PPR matrix S is the identity matrix; it
\* equals T only when A has no off-diagonal entry (T is then the identity).
PPRAlphaOneIsIdentity ==
    (PastDiffuse /\ alpha = One /\ ValidA) =>
        /\ S = Eye
        /\ (S = T_sym) <=> OffDiagonalZero(A)

\* C4 witness: alpha = 1 on a graph that has an edge.
PPRAlphaOneWithEdge ==
    /\ pc = "sparsify"
    /\ alpha = One
    /\ ValidA
    /\ ~OffDiagonalZero(A)
    /\ S = Eye

\* C5: for a valid A, T is symmetric iff A is symmetric, and every diagonal
\* entry of A + I is >= 1.
TransitionSymmetry ==
    /\ (pc # "self_loops" /\ ValidA) =>
           \A i \in Nodes : Geq(A_loop[i][i], One)
    /\ (PastTransition /\ ValidA) => (Symmetric(T_sym) <=> Symmetric(A))

\* C5 witness: a symmetric weighted graph with an edge between nodes of
\* different degree, whose T is symmetric.
SymmetricUnequalDegrees ==
    /\ pc = "ppr"
    /\ ValidA
    /\ Symmetric(A)
    /\ ~OffDiagonalZero(A)
    /\ \E i \in Nodes : \E j \in Nodes : D_loop_vec[i] # D_loop_vec[j]
    /\ Symmetric(T_sym)

\* C6: a call with alpha outside (0,1] or eps outside [0,1) never returns a
\* matrix (stated for a valid A, so that the configuration is all that is
\* wrong with the call).
ConfigurationRejected ==
    (ValidA /\ (~ValidAlpha \/ ~ValidEps)) => pc # "returned"

\* C7: once the degrees are computed, a zero degree makes the call fail with
\* a NumericalError instead of going on with 1/sqrt(0).
DegreeZeroRejected ==
    (PastTransition /\ ValidAlpha /\ ValidEps
        /\ \E i \in Nodes : D_loop_vec[i] = Zero) =>
        (pc = "raised" /\ exc = "NumericalError")

\* C8: for a valid A, symmetric or not, the degree vector is the vector of
\* row sums of A_loop.
DegreeIsRowSum ==
    (PastTransition /\ ValidCall) => D_loop_vec = RowSums(A_loop)

(***************************************************************************)
(* Properties of run, checked under SpecRun.                               *)
(***************************************************************************)
Range(h) == {h[i] : i \in 1..Len(h)}

MaxAcc(vs) == CHOOSE v \in vs : \A w \in vs : Geq(v, w)

\* epoch i had a validation accuracy strictly below the best so far, that is
\* below the initial 0 or below that of some earlier epoch
Dropped(h, i) == Lt(h[i], Zero) \/ \E k \in 1..(i - 1) : Lt(h[i], h[k])

\* the number of consecutive epochs that dropped, counted back from epoch m
TrailingDrops(h, m) ==
    CHOOSE n \in 0..m :
        /\ \A i \in (m - n + 1)..m : Dropped(h, i)
        /\ n < m => ~Dropped(h, m - n)

\* the p epochs up to and including epoch m each dropped
WindowDropped(h, m, p) == m >= p /\ \A i \in (m - p + 1)..m : Dropped(h, i)

NeverDropped(h) == \A i \in 1..Len(h) : ~Dropped(h, i)

\* a seed is being processed, or was and its results are still in place
InSeed ==
    \/ rpc \in {"epoch_loop", "append"}
    \/ rpc \in {"seed_loop", "done"} /\ seeds_done >= 1

LoopOver == InSeed /\ rpc # "epoch_loop"

Metrics == DOMAIN best_dict \ {"duration"}

\* C9: after every evaluated epoch tmp_dict holds the maximum validation
\* accuracy of the seed so far, the latest epoch that attained it and the
\* other metrics of that same epoch; every finished seed has appended exactly
\* one entry per metric to best_dict, the seed's tmp_dict values.
BestEpochTracking ==
    /\ (InSeed /\ Len(val_hist) >= 1) =>
           /\ DOMAIN tmp_dict =
                  {"val_acc", "epoch"} \cup (IF test THEN {"test_acc"} ELSE {})
           /\ tmp_dict["val_acc"] = MaxAcc(Range(val_hist))
           /\ tmp_dict["epoch"] \in 1..Len(val_hist)
           /\ val_hist[tmp_dict["epoch"]] = tmp_dict["val_acc"]
           /\ \A i \in (tmp_dict["epoch"] + 1)..Len(val_hist) :
                  val_hist[i] # tmp_dict["val_acc"]
           /\ test => tmp_dict["test_acc"] = test_hist[tmp_dict["epoch"]]
    /\ \A k \in Metrics : Len(best_dict[k]) = seeds_done
    /\ (rpc \in {"seed_loop", "done"} /\ seeds_done >= 1) =>
           /\ Metrics = DOMAIN tmp_dict
           /\ \A k \in Metrics : best_dict[k][seeds_done] = tmp_dict[k]

\* C9 witness: the last seed is finished, its best validation accuracy was
\* attained twice with different test accuracies, and the later epoch won.
TieKeepsLatestEpoch ==
    /\ rpc = "seed_loop"
    /\ seeds_done = NumSeeds
    /\ test
    /\ \E i \in 1..Len(val_hist) : \E j \in 1..Len(val_hist) :
           /\ i < j
           /\ val_hist[i] = tmp_dict["val_acc"]
           /\ val_hist[j] = tmp_dict["val_acc"]
           /\ test_hist[i] # test_hist[j]
           /\ best_dict["epoch"][seeds_done] = j
           /\ best_dict["test_acc"][seeds_done] = test_hist[j]

\* the part of C10 that holds for every patience >= 0
EarlyStopCore ==
    /\ epoch <= max_epochs
    /\ patience_counter \in 0..patience
    /\ InSeed =>
           /\ Len(val_hist) = epoch
           /\ patience_counter = TrailingDrops(val_hist, epoch)
           /\ epoch >= 1 => ~WindowDropped(val_hist, epoch - 1, patience)
    /\ LoopOver =>
           /\ broke <=> (epoch < max_epochs
                            /\ WindowDropped(val_hist, epoch, patience))
           /\ ~broke => epoch = max_epochs

\* C10 as stated: at most max_epochs training steps; the loop stops early
\* exactly when patience consecutive epochs each fell strictly below the best
\* so far; patience_counter stays in 0..patience and is reset by an epoch that
\* is >= the best; a run that never drops is never stopped early and runs all
\* max_epochs epochs.
EarlyStopping ==
    /\ EarlyStopCore
    /\ (LoopOver /\ NeverDropped(val_hist)) => (~broke /\ epoch = max_epochs)

\* C10 amended: the same, with the last part for patience >= 1 only; with
\* patience = 0 the loop breaks before its first training step.
EarlyStoppingPositivePatience ==
    /\ EarlyStopCore
    /\ (LoopOver /\ patience >= 1 /\ NeverDropped(val_hist))
           => (~broke /\ epoch = max_epochs)
    /\ (InSeed /\ patience = 0) => epoch = 0

\* C10 witness: a seed stopped early after MaxPatience consecutive drops.
StoppedEarly ==
    /\ rpc = "append"
    /\ broke
    /\ patience >= 2
    /\ epoch < max_epochs
    /\ seeds_done >= 1

====
